---- MODULE Spec2Model ----
(***************************************************************************)
(* Thermo-hygro-stat (GarageClimate.ino): the climate decision             *)
(* (processClimate) and the keypad / mode state machine (processKeys),     *)
(* driven by the cooperative main loop (loop, loopIdle, loopSetup,         *)
(* processSensors).                                                        *)
(*                                                                         *)
(* Sensor readings are C floats.  A reading is modelled as an integer      *)
(* number of 1/Scale units (Scale = 2: half degrees, half percent), or the *)
(* value NaN, for which every comparison is false as in IEEE arithmetic.   *)
(* `long' values are 32 bit two's complement.  The LCD calls (displayIdle, *)
(* displaySetup) write none of the program's variables and are left out.   *)
(***************************************************************************)
EXTENDS Integers, Sequences, FiniteSets, TLC

VARIABLES
    mode,          \* state.mode
    config,        \* config: lowTemp, highTemp, lowHumid, highHumid (bytes)
    temp,          \* state.temp
    humid,         \* state.humid
    outdoorTemp,   \* state.outdoorTemp
    tempOn,        \* state.tempOn  (heater decision)
    humidOn,       \* state.humidOn (fan decision)
    lastKey,       \* processKeys: static Key lastKey
    lastTime,      \* processKeys: static long lastTime
    lastReadTime,  \* processSensors: static long lastReadTime
    relayTemp,     \* level last written to RELAY_TEMP_PIN
    relayHumid,    \* level last written to RELAY_HUMID_PIN
    pc,            \* position of the main loop
    uptime,        \* real time since power-up, [half, ms]: half * 2^31 + ms
    wrote,         \* history: writeConfig calls made by the last program step
    held,          \* history: the last processKeys call read key = lastKey
    sinceEdge,     \* history: ms since the last key transition (saturating)
    selTrail,      \* history: modes reached by the Select edges of this cycle
    trailWrites,   \* history: writeConfig calls made during this cycle
    edits,         \* history: number of threshold edits made so far
    lastEdit,      \* history: the last edit made since the mode changed:
                   \* its key and the thresholds it was made on
    polls          \* history: processKeys calls made by the loop() iteration
                   \* in progress or, between two iterations, just ended

vars == <<mode, config, temp, humid, outdoorTemp, tempOn, humidOn, lastKey,
          lastTime, lastReadTime, relayTemp, relayHumid, pc, uptime, wrote,
          held, sinceEdge, selTrail, trailWrites, edits, lastEdit, polls>>

climateVars == <<temp, humid, outdoorTemp, tempOn, humidOn>>
keyVars     == <<mode, config, lastKey, lastTime, wrote, held, sinceEdge,
                 selTrail, trailWrites, edits, lastEdit>>
relayVars   == <<relayTemp, relayHumid>>

(***************************************************************************)
(* Program constants.                                                      *)
(***************************************************************************)
KEY_TIMEOUT         == 30000
SENSORS_READ_PERIOD == 5000

\* enum Key
right  == 0
up     == 1
down   == 2
left   == 3
select == 4
none   == 5

\* enum Mode
idle         == 0
setLowTemp   == 1
setHighTemp  == 2
setLowHumid  == 3
setHighHumid == 4

Modes == {idle, setLowTemp, setHighTemp, setLowHumid, setHighHumid}

ByteModulus == 256          \* a byte holds 0..255
LongMax     == 2147483647   \* largest 32 bit long
LongMin     == -LongMax - 1

LOW  == "LOW"
HIGH == "HIGH"

(***************************************************************************)
(* Bounds of the model.                                                    *)
(***************************************************************************)
Scale     == 2       \* a reading counts units of 1/Scale
MaxEdits  == 1       \* threshold edits explored
MaxUptime == 61002   \* ms of uptime explored by Spec
MaxHalf   == 1       \* half ranges of the counter explored by SpecRollover
RolloverWindow == 31001  \* ms explored around each half range boundary
MaxSampleUptime == 11002 \* ms of uptime explored by SpecSampling

(***************************************************************************)
(* Floats.                                                                 *)
(***************************************************************************)
NaN == 99999999      \* what the DHT library returns when a read fails

W(d)    == d * Scale        \* the whole number d as a reading
Frac(d) == d * Scale + 1    \* d + 1/Scale

FLT(a, b) == a # NaN /\ b # NaN /\ a < b
FLE(a, b) == a # NaN /\ b # NaN /\ a <= b
FGT(a, b) == a # NaN /\ b # NaN /\ a > b
FGE(a, b) == a # NaN /\ b # NaN /\ a >= b

(***************************************************************************)
(* processClimate                                                          *)
(***************************************************************************)
isValidTemp(t) == FGT(t, W(-90)) /\ FLT(t, W(90))

isValidHumid(h) == FGE(h, W(10)) /\ FLE(h, W(100))

ReadingsValid_NoOutdoor(t, h, o) == isValidTemp(t) /\ isValidHumid(h)
ReadingsValid(t, h, o) ==
    isValidTemp(t) /\ isValidHumid(h) /\ isValidTemp(o)

\* lines 283-287: the heater decision once the readings are valid
HeaterRule_NoHold(t, cfg, prev) ==
    IF FLE(t, W(cfg.lowTemp)) THEN TRUE ELSE FALSE
HeaterRule_Exclusive(t, cfg, prev) ==
    IF FLT(t, W(cfg.lowTemp)) THEN TRUE
    ELSE IF FGT(t, W(cfg.highTemp)) THEN FALSE
    ELSE prev
HeaterRule(t, cfg, prev) ==
    IF FLE(t, W(cfg.lowTemp)) THEN TRUE
    ELSE IF FGE(t, W(cfg.highTemp)) THEN FALSE
    ELSE prev

\* lines 289-300: the fan decision once the readings are valid
FanRule_NoOverride(t, h, o, cfg, prev) ==
    IF FLE(h, W(cfg.lowHumid)) THEN FALSE
    ELSE IF FGE(h, W(cfg.highHumid)) THEN TRUE
    ELSE prev
FanRule_HighFirst(t, h, o, cfg, prev) ==
    IF FLT(o, t) THEN FALSE
    ELSE IF FGE(h, W(cfg.highHumid)) THEN TRUE
    ELSE IF FLE(h, W(cfg.lowHumid)) THEN FALSE
    ELSE prev
FanRule(t, h, o, cfg, prev) ==
    IF FLT(o, t) THEN FALSE
    ELSE IF FLE(h, W(cfg.lowHumid)) THEN FALSE
    ELSE IF FGE(h, W(cfg.highHumid)) THEN TRUE
    ELSE prev

\* the two outputs processClimate leaves, from the readings, the thresholds
\* and the outputs before it
Decision_NoFallback(t, h, o, cfg, heater, fan) ==
    [tempOn |-> HeaterRule(t, cfg, heater),
     humidOn |-> FanRule(t, h, o, cfg, fan)]
Decision(t, h, o, cfg, heater, fan) ==
    IF ~ReadingsValid(t, h, o)
    THEN [tempOn |-> FALSE, humidOn |-> FALSE]
    ELSE [tempOn |-> HeaterRule(t, cfg, heater),
          humidOn |-> FanRule(t, h, o, cfg, fan)]

processClimate ==
    /\ pc = "climate"
    /\ LET d == Decision(temp, humid, outdoorTemp, config, tempOn, humidOn)
       IN  /\ tempOn' = d.tempOn
           /\ humidOn' = d.humidOn
    /\ pc' = "relays"
    /\ wrote' = 0
    /\ UNCHANGED <<mode, config, temp, humid, outdoorTemp, lastKey, lastTime,
                   lastReadTime, relayTemp, relayHumid, uptime, held,
                   sinceEdge, selTrail, trailWrites, edits, lastEdit, polls>>

(***************************************************************************)
(* Start-up.                                                               *)
(***************************************************************************)
resetDefaultConfig ==
    [lowTemp |-> 4, highTemp |-> 6, lowHumid |-> 60, highHumid |-> 70]

boolToDigital(val) == IF val THEN LOW ELSE HIGH

\* no edit has been made since the mode changed
NoEdit == [key |-> none, was |-> resetDefaultConfig]

\* milliseconds setup() has waited before the first loop() (delay(1000))
SetupDelay == 1000

\* Globals are zero-initialised; setup() drives the relays from them, sets
\* the mode and loads the defaults.
Init ==
    /\ mode = idle
    /\ config = resetDefaultConfig
    /\ temp = W(0)
    /\ humid = W(0)
    /\ outdoorTemp = W(0)
    /\ tempOn = FALSE
    /\ humidOn = FALSE
    /\ lastKey = none
    /\ lastTime = 0
    /\ lastReadTime = 0
    /\ relayTemp = boolToDigital(FALSE)
    /\ relayHumid = boolToDigital(FALSE)
    /\ pc = "loop"
    /\ uptime = [half |-> 0, ms |-> SetupDelay]
    /\ wrote = 0
    /\ held = FALSE
    /\ sinceEdge = 0
    /\ selTrail = <<>>
    /\ trailWrites = 0
    /\ edits = 0
    /\ lastEdit = NoEdit
    /\ polls = 0

(***************************************************************************)
(* The millisecond counter.  millis() returns the uptime modulo 2^32 as an *)
(* unsigned long; the code stores it in a (signed, 32 bit) long.           *)
(***************************************************************************)
MillisAt(u) == IF u.half % 2 = 0 THEN u.ms ELSE LongMin + u.ms
Millis == MillisAt(uptime)

\* a - b on 32 bit longs, as the two's complement subtraction the AVR build
\* emits (the difference modulo 2^32), computed without leaving 32 bits
SubLong(a, b) ==
    IF (a >= 0) = (b >= 0) THEN a - b
    ELSE IF a >= 0
         THEN IF a <= LongMax + b THEN a - b
              ELSE (a - LongMax) + ((-(b + 1)) - LongMax) - 1
         ELSE IF a >= LongMin + b THEN a - b
              ELSE (a + LongMax + 1) + (LongMax - b) + 1

(***************************************************************************)
(* readKey                                                                 *)
(***************************************************************************)
readKey(analogKey) ==
    IF analogKey < 60 THEN right
    ELSE IF analogKey < 200 THEN up
    ELSE IF analogKey < 400 THEN down
    ELSE IF analogKey < 600 THEN left
    ELSE IF analogKey < 800 THEN select
    ELSE none

\* values analogRead(0) is sampled at: both sides of every band edge
AnalogSamples == {0, 59, 60, 200, 400, 600, 799, 800}

(***************************************************************************)
(* toggleMode, toggleModeToIdle: the new mode and the number of            *)
(* writeConfig calls made.                                                 *)
(***************************************************************************)
toggleModeToIdle_NoWrite == [mode |-> idle, writes |-> 0]
toggleModeToIdle == [mode |-> idle, writes |-> 1]

toggleMode_SkipHighTemp(m) ==
    IF m = setHighHumid THEN toggleModeToIdle
    ELSE IF m = setLowTemp THEN [mode |-> setLowHumid, writes |-> 0]
    ELSE [mode |-> m + 1, writes |-> 0]
toggleMode(m) ==
    IF m = setHighHumid THEN toggleModeToIdle
    ELSE [mode |-> m + 1, writes |-> 0]

(***************************************************************************)
(* processKeys                                                             *)
(***************************************************************************)
NULL == "NULL"

\* line 196: the idle-timeout test of the key-unchanged branch
TimedOut_NoElapsed(m, lt, now) == m # idle /\ lt > 0
TimedOut(m, lt, now) ==
    m # idle /\ lt > 0 /\ SubLong(now, lt) > KEY_TIMEOUT

\* lines 217-220: *parameter += step, *parameter -= step on a byte
EditParameter_Clamped(cfg, parameter, step, key) ==
    IF key = up
    THEN [cfg EXCEPT ![parameter] =
                IF @ + step >= ByteModulus THEN ByteModulus - 1 ELSE @ + step]
    ELSE IF key = down
    THEN [cfg EXCEPT ![parameter] = IF @ < step THEN 0 ELSE @ - step]
    ELSE cfg
EditParameter(cfg, parameter, step, key) ==
    IF key = up
    THEN [cfg EXCEPT ![parameter] = (@ + step) % ByteModulus]
    ELSE IF key = down
    THEN [cfg EXCEPT ![parameter] = (@ - step) % ByteModulus]
    ELSE cfg

\* lines 192-199: key = lastKey
KeyUnchanged_Repeats(parameter, step, key, now) ==
    LET to == TimedOut(mode, lastTime, now)
        edit == mode # idle /\ parameter # NULL /\ key \in {up, down}
    IN  /\ mode' = IF to THEN toggleModeToIdle.mode ELSE mode
        /\ wrote' = IF to THEN toggleModeToIdle.writes ELSE 0
        /\ held' = TRUE
        /\ selTrail' = IF to THEN <<>> ELSE selTrail
        /\ trailWrites' = IF to THEN 0 ELSE trailWrites
        /\ IF edit
           THEN /\ edits < MaxEdits
                /\ config' = EditParameter(config, parameter, step, key)
                /\ edits' = edits + 1
                /\ lastEdit' = [key |-> key, was |-> config]
           ELSE /\ lastEdit' = IF to THEN NoEdit ELSE lastEdit
                /\ UNCHANGED <<config, edits>>
        /\ UNCHANGED <<lastKey, lastTime, sinceEdge>>
KeyUnchanged(parameter, step, key, now) ==
    LET to == TimedOut(mode, lastTime, now)
    IN  /\ mode' = IF to THEN toggleModeToIdle.mode ELSE mode
        /\ wrote' = IF to THEN toggleModeToIdle.writes ELSE 0
        /\ held' = TRUE
        /\ selTrail' = IF to THEN <<>> ELSE selTrail
        /\ trailWrites' = IF to THEN 0 ELSE trailWrites
        /\ lastEdit' = IF to THEN NoEdit ELSE lastEdit
        /\ UNCHANGED <<config, lastKey, lastTime, sinceEdge, edits>>

\* lines 201-221 with the idle-timeout test of line 196 made first
KeyChanged_TimeoutFirst(parameter, step, key, now) ==
    /\ lastKey' = key
    /\ lastTime' = now
    /\ held' = FALSE
    /\ sinceEdge' = 0
    /\ IF TimedOut(mode, lastTime, now)
       THEN /\ mode' = toggleModeToIdle.mode
            /\ wrote' = toggleModeToIdle.writes
            /\ selTrail' = <<>>
            /\ trailWrites' = 0
            /\ lastEdit' = NoEdit
            /\ UNCHANGED <<config, edits>>
       ELSE IF key = select
       THEN LET r == toggleMode(mode)
            IN  /\ mode' = r.mode
                /\ wrote' = r.writes
                /\ selTrail' = IF mode = idle THEN <<r.mode>>
                               ELSE Append(selTrail, r.mode)
                /\ trailWrites' = IF mode = idle THEN r.writes
                                  ELSE trailWrites + r.writes
                /\ lastEdit' = NoEdit
                /\ UNCHANGED <<config, edits>>
       ELSE /\ wrote' = 0
            /\ UNCHANGED <<mode, selTrail, trailWrites>>
            /\ IF mode = idle \/ parameter = NULL \/ key \notin {up, down}
               THEN UNCHANGED <<config, edits, lastEdit>>
               ELSE /\ edits < MaxEdits
                    /\ config' = EditParameter(config, parameter, step, key)
                    /\ edits' = edits + 1
                    /\ lastEdit' = [key |-> key, was |-> config]

\* lines 201-221: a key transition.  The user presses Up or Down on a
\* threshold at most MaxEdits times (edits counts them), which keeps the
\* thresholds explored finite.
KeyChanged(parameter, step, key, now) ==
    /\ lastKey' = key
    /\ lastTime' = now
    /\ held' = FALSE
    /\ sinceEdge' = 0
    /\ IF key = select
       THEN LET r == toggleMode(mode)
            IN  /\ mode' = r.mode
                /\ wrote' = r.writes
                /\ selTrail' = IF mode = idle THEN <<r.mode>>
                               ELSE Append(selTrail, r.mode)
                /\ trailWrites' = IF mode = idle THEN r.writes
                                  ELSE trailWrites + r.writes
                /\ lastEdit' = NoEdit
                /\ UNCHANGED <<config, edits>>
       ELSE /\ wrote' = 0
            /\ UNCHANGED <<mode, selTrail, trailWrites>>
            /\ IF mode = idle \/ parameter = NULL \/ key \notin {up, down}
               THEN UNCHANGED <<config, edits, lastEdit>>
               ELSE /\ edits < MaxEdits
                    /\ config' = EditParameter(config, parameter, step, key)
                    /\ edits' = edits + 1
                    /\ lastEdit' = [key |-> key, was |-> config]

\* lines 186-221.  The two millis() reads of a call (lines 190 and 195) are
\* less than a millisecond apart and are taken as one value.
processKeys(parameter, step) ==
    \E analogKey \in AnalogSamples :
        LET key == readKey(analogKey)
            now == Millis
        IN  IF key = lastKey
            THEN KeyUnchanged(parameter, step, key, now)
            ELSE KeyChanged(parameter, step, key, now)

(***************************************************************************)
(* The main loop.                                                          *)
(***************************************************************************)
\* lines 121-124: the threshold and the step loop() hands to loopSetup
Parameter_LowTempOnly(m) == "lowTemp"
Parameter(m) ==
    CASE m = setLowTemp   -> "lowTemp"
      [] m = setHighTemp  -> "highTemp"
      [] m = setLowHumid  -> "lowHumid"
      [] m = setHighHumid -> "highHumid"
Step(m) == IF m \in {setLowTemp, setHighTemp} THEN 1 ELSE 5

\* what the sensors return in Spec
TempReads    == {W(3), W(7)}
HumidReads   == {W(50), W(80)}
OutdoorReads == {W(-127), W(10)}

\* loop(), case idle: loopIdle's first call, processIU()
loopIdle ==
    /\ pc = "loop"
    /\ mode = idle
    /\ processKeys(NULL, 0)
    /\ polls' = 1
    /\ pc' = "sensors"
    /\ UNCHANGED <<climateVars, relayVars, lastReadTime, uptime>>

\* loop(), the four edit cases: loopSetup
loopSetup_RunsIdlePass ==
    /\ pc = "loop"
    /\ mode # idle
    /\ processKeys(Parameter(mode), Step(mode))
    /\ polls' = 1
    /\ pc' = "sensors"
    /\ UNCHANGED <<climateVars, relayVars, lastReadTime, uptime>>
loopSetup ==
    /\ pc = "loop"
    /\ mode # idle
    /\ processKeys(Parameter(mode), Step(mode))
    /\ polls' = 1
    /\ pc' = "loop"
    /\ UNCHANGED <<climateVars, relayVars, lastReadTime, uptime>>

\* line 244: the period test
SamplingDue_AtLeast(now, lrt) == SubLong(now, lrt) >= SENSORS_READ_PERIOD
SamplingDue(now, lrt) == SubLong(now, lrt) > SENSORS_READ_PERIOD

\* processSensors, lines 241-250: the period test and the first read
processSensors ==
    /\ pc = "sensors"
    /\ IF SamplingDue(Millis, lastReadTime)
       THEN /\ lastReadTime' = Millis
            /\ temp' \in TempReads
            /\ pc' = "iu1"
       ELSE /\ pc' = "climate"
            /\ UNCHANGED <<lastReadTime, temp>>
    /\ wrote' = 0
    /\ UNCHANGED <<mode, config, humid, outdoorTemp, tempOn, humidOn, lastKey,
                   lastTime, relayVars, uptime, held, sinceEdge, selTrail,
                   trailWrites, edits, lastEdit, polls>>

\* line 251
sensorsIU1 ==
    /\ pc = "iu1"
    /\ processKeys(NULL, 0)
    /\ polls' = polls + 1
    /\ pc' = "iu2"
    /\ UNCHANGED <<climateVars, relayVars, lastReadTime, uptime>>

\* lines 252-253
sensorsHumid ==
    /\ pc = "iu2"
    /\ humid' \in HumidReads
    /\ processKeys(NULL, 0)
    /\ polls' = polls + 1
    /\ pc' = "iu3"
    /\ UNCHANGED <<temp, outdoorTemp, tempOn, humidOn, relayVars,
                   lastReadTime, uptime>>

\* lines 254-255
sensorsRequest_NoPoll ==
    /\ pc = "iu3"
    /\ pc' = "iu4"
    /\ wrote' = 0
    /\ UNCHANGED <<mode, config, climateVars, lastKey, lastTime, lastReadTime,
                   relayVars, uptime, held, sinceEdge, selTrail, trailWrites,
                   edits, lastEdit, polls>>
sensorsRequest ==
    /\ pc = "iu3"
    /\ processKeys(NULL, 0)
    /\ polls' = polls + 1
    /\ pc' = "iu4"
    /\ UNCHANGED <<climateVars, relayVars, lastReadTime, uptime>>

\* lines 256-257
sensorsOutdoor ==
    /\ pc = "iu4"
    /\ outdoorTemp' \in OutdoorReads
    /\ processKeys(NULL, 0)
    /\ polls' = polls + 1
    /\ pc' = "climate"
    /\ UNCHANGED <<temp, humid, tempOn, humidOn, relayVars, lastReadTime,
                   uptime>>

processRelays_HeaterOnly ==
    /\ pc = "relays"
    /\ relayTemp' = boolToDigital(tempOn)
    /\ relayHumid' = relayHumid
    /\ pc' = "loop"
    /\ wrote' = 0
    /\ UNCHANGED <<mode, config, climateVars, lastKey, lastTime, lastReadTime,
                   uptime, held, sinceEdge, selTrail, trailWrites, edits,
                   lastEdit, polls>>
processRelays ==
    /\ pc = "relays"
    /\ relayTemp' = boolToDigital(tempOn)
    /\ relayHumid' = boolToDigital(humidOn)
    /\ pc' = "loop"
    /\ wrote' = 0
    /\ UNCHANGED <<mode, config, climateVars, lastKey, lastTime, lastReadTime,
                   uptime, held, sinceEdge, selTrail, trailWrites, edits,
                   lastEdit, polls>>

\* one step of the program
MainLoop ==
    \/ loopIdle
    \/ loopSetup
    \/ processSensors
    \/ sensorsIU1
    \/ sensorsHumid
    \/ sensorsRequest
    \/ sensorsOutdoor
    \/ processClimate
    \/ processRelays

(***************************************************************************)
(* Time passes between the steps of the program.  The uptimes explored lie *)
(* within a window of the start of one of the counter's half ranges.       *)
(***************************************************************************)
After(u, d) ==
    IF d > LongMax - u.ms
    THEN [half |-> u.half + 1, ms |-> d - (LongMax - u.ms) - 1]
    ELSE [half |-> u.half, ms |-> u.ms + d]

Explored(u, halves, window) ==
    /\ u.half <= halves
    /\ \/ u.ms <= window
       \/ u.ms >= LongMax - window

Tick(d, halves, window) ==
    /\ Explored(After(uptime, d), halves, window)
    /\ uptime' = After(uptime, d)
    /\ sinceEdge' = IF d > KEY_TIMEOUT + 1 - sinceEdge
                    THEN KEY_TIMEOUT + 1 ELSE sinceEdge + d
    /\ UNCHANGED <<mode, config, climateVars, lastKey, lastTime, lastReadTime,
                   relayVars, pc, wrote, held, selTrail, trailWrites, edits,
                   lastEdit, polls>>

\* Spec: the first MaxUptime ms after power-up
Deltas == {KEY_TIMEOUT, KEY_TIMEOUT + 1}

Pass == \E d \in Deltas : Tick(d, 0, MaxUptime)

Next == MainLoop \/ Pass

Spec == Init /\ [][Next]_vars

\* SpecSampling: the same program observed at uptimes that lie just under, at
\* and just over one sampling period from boot and from a sample
SampleDeltas == {SENSORS_READ_PERIOD - 1000, SENSORS_READ_PERIOD,
                 SENSORS_READ_PERIOD + 1}

PassShort == \E d \in SampleDeltas : Tick(d, 0, MaxSampleUptime)

NextSampling == MainLoop \/ PassShort

SpecSampling == Init /\ [][NextSampling]_vars

\* SpecRollover: the same program over uptimes that reach the upper half of
\* the counter's range (2^31 ms, 24.8 days, and later).
\*
\* Rest(d) is d ms of loopIdle iterations taken as one step: the mode is
\* idle, the key stays what it was, and the sensors keep returning the
\* readings they returned last, the last sample being taken at the end.
\* Every such iteration polls the key (nothing changes: the key is unchanged
\* and the mode is idle), re-reads the same readings, and runs processClimate
\* and processRelays, which after the first iteration change nothing more.
\* The last iteration, which samples, makes five processKeys calls.
Rest(d) ==
    /\ pc = "loop"
    /\ mode = idle
    /\ Explored(After(uptime, d), MaxHalf, RolloverWindow)
    /\ uptime' = After(uptime, d)
    /\ lastReadTime' = MillisAt(After(uptime, d))
    /\ LET r == Decision(temp, humid, outdoorTemp, config, tempOn, humidOn)
       IN  /\ tempOn' = r.tempOn
           /\ humidOn' = r.humidOn
           /\ relayTemp' = boolToDigital(r.tempOn)
           /\ relayHumid' = boolToDigital(r.humidOn)
    /\ sinceEdge' = KEY_TIMEOUT + 1
    /\ wrote' = 0
    /\ held' = TRUE
    /\ UNCHANGED <<mode, config, temp, humid, outdoorTemp, lastKey, lastTime,
                   pc, selTrail, trailWrites, edits, lastEdit>>
    /\ polls' = 5

\* a rest that ends KEY_TIMEOUT + 1 ms before the counter reaches 2^31
RestSpan == LongMax - KEY_TIMEOUT - SetupDelay

PassLong == Tick(KEY_TIMEOUT + 1, MaxHalf, RolloverWindow)

NextRollover == MainLoop \/ PassLong \/ Rest(RestSpan)

SpecRollover == Init /\ [][NextRollover]_vars

(***************************************************************************)
(* The climate decision as a function of its inputs: every sampled         *)
(* combination of readings, thresholds and previous outputs, evaluated     *)
(* once.                                                                   *)
(***************************************************************************)
TempSamples ==
    {NaN, W(-127), W(-90), Frac(-90), W(3), W(4), Frac(4), W(5), W(6), W(7),
     Frac(89), W(90)}
HumidSamples ==
    {NaN, W(0), Frac(9), W(10), W(60), W(65), W(70), W(80), W(100), Frac(100)}
OutdoorSamples ==
    {NaN, W(-127), W(-90), W(3), W(5), W(7), Frac(89), W(90)}
ConfigSamples ==
    [lowTemp : {4, 6}, highTemp : {4, 6}, lowHumid : {60, 70},
     highHumid : {60, 70}]

InitClimate ==
    /\ mode = idle
    /\ config \in ConfigSamples
    /\ temp \in TempSamples
    /\ humid \in HumidSamples
    /\ outdoorTemp \in OutdoorSamples
    /\ tempOn \in BOOLEAN
    /\ humidOn \in BOOLEAN
    /\ lastKey = none
    /\ lastTime = 0
    /\ lastReadTime = 0
    /\ relayTemp = boolToDigital(FALSE)
    /\ relayHumid = boolToDigital(FALSE)
    /\ pc = "climate"
    /\ uptime = [half |-> 0, ms |-> SetupDelay]
    /\ wrote = 0
    /\ held = FALSE
    /\ sinceEdge = 0
    /\ selTrail = <<>>
    /\ trailWrites = 0
    /\ edits = 0
    /\ lastEdit = NoEdit
    /\ polls = 0

NextClimate == processClimate

SpecClimate == InitClimate /\ [][NextClimate]_vars

(***************************************************************************)
(* Threshold editing as a function of the threshold: loopSetup iterations  *)
(* from every edit mode and every byte value of its threshold.  The mode   *)
(* was entered by Select edges at start-up and the key is still down; the  *)
(* count of edits starts two below MaxEdits, so that from each value an    *)
(* edit and the edit that follows it are explored.                         *)
(***************************************************************************)
Bytes == 0 .. ByteModulus - 1

InitEdit ==
    /\ mode \in Modes \ {idle}
    /\ \E v \in Bytes :
          config = [resetDefaultConfig EXCEPT ![Parameter(mode)] = v]
    /\ temp = W(0)
    /\ humid = W(0)
    /\ outdoorTemp = W(0)
    /\ tempOn = FALSE
    /\ humidOn = FALSE
    /\ lastKey = select
    /\ lastTime = SetupDelay
    /\ lastReadTime = 0
    /\ relayTemp = boolToDigital(FALSE)
    /\ relayHumid = boolToDigital(FALSE)
    /\ pc = "loop"
    /\ uptime = [half |-> 0, ms |-> SetupDelay]
    /\ wrote = 0
    /\ held = FALSE
    /\ sinceEdge = 0
    /\ selTrail = SubSeq(<<setLowTemp, setHighTemp, setLowHumid,
                           setHighHumid>>, 1, mode)
    /\ trailWrites = 0
    /\ edits = MaxEdits - 2
    /\ lastEdit = NoEdit
    /\ polls = 1

NextEdit == loopSetup

SpecEdit == InitEdit /\ [][NextEdit]_vars

(***************************************************************************)
(* Properties of processClimate (checked under SpecClimate).  The ranges   *)
(* are stated here on the readings themselves, not through isValidTemp and *)
(* isValidHumid.                                                           *)
(***************************************************************************)
TempInRange(t)  == t # NaN /\ t > W(-90) /\ t < W(90)
HumidInRange(h) == h # NaN /\ h >= W(10) /\ h <= W(100)
AllInRange ==
    TempInRange(temp) /\ HumidInRange(humid) /\ TempInRange(outdoorTemp)
Evaluated == pc = "relays"

\* C1: Safety fallback.  Whenever processClimate runs with temp outside
\* (-90, 90), humid outside [10, 100] or outdoorTemp outside (-90, 90), it
\* leaves tempOn (heater) and humidOn (fan) false, whatever the thresholds
\* and the previous outputs.
C1_SafetyFallback ==
    [][(processClimate /\ ~AllInRange) => (~tempOn' /\ ~humidOn')]_vars

\* with a failed outdoor probe (-127) the heater is off at a temperature at
\* which the heater rule alone switches it on
C1_Witness ==
    /\ Evaluated
    /\ outdoorTemp = W(-127)
    /\ TempInRange(temp) /\ HumidInRange(humid)
    /\ temp <= W(config.lowTemp)
    /\ ~tempOn /\ ~humidOn

\* C2: Heater hysteresis hold.  With all three readings valid and
\* lowTemp < temp < highTemp, processClimate leaves tempOn as it was.
C2_HysteresisHold ==
    [][(/\ processClimate
        /\ AllInRange
        /\ W(config.lowTemp) < temp
        /\ temp < W(config.highTemp)) => (tempOn' = tempOn)]_vars

\* the heater is on after an evaluation inside the dead band
C2_Witness ==
    /\ Evaluated
    /\ AllInRange
    /\ W(config.lowTemp) < temp
    /\ temp < W(config.highTemp)
    /\ tempOn

\* C3: Heater boundaries.  With valid readings, temp = lowTemp switches the
\* heater on, temp = highTemp with temp > lowTemp switches it off, whatever
\* it was before; with lowTemp = highTemp = temp the low rule wins (on).
C3_BoundaryInclusive ==
    [][(processClimate /\ AllInRange) =>
         /\ (temp = W(config.lowTemp) => tempOn')
         /\ ((temp = W(config.highTemp) /\ temp > W(config.lowTemp))
                => ~tempOn')]_vars

\* the heater is on at temp = lowTemp = highTemp
C3_Witness ==
    /\ Evaluated
    /\ AllInRange
    /\ config.lowTemp = config.highTemp
    /\ temp = W(config.lowTemp)
    /\ tempOn

\* C4: Cold-outdoor fan override.  With valid readings and
\* outdoorTemp < temp the fan is off after processClimate, for every
\* humidity, threshold set and previous fan state.
C4_ColdOutdoorOverride ==
    [][(processClimate /\ AllInRange /\ outdoorTemp < temp)
          => ~humidOn']_vars

\* the fan is off although the humidity is at or above highHumid
C4_Witness ==
    /\ Evaluated
    /\ AllInRange
    /\ outdoorTemp < temp
    /\ humid >= W(config.highHumid)
    /\ humid > W(config.lowHumid)
    /\ ~humidOn

\* C5: Fan humidity rule.  With valid readings and outdoorTemp >= temp:
\* humid <= lowHumid gives fan off, otherwise humid >= highHumid gives fan
\* on, otherwise the fan keeps its previous state.
C5_FanHumidityRule ==
    [][(processClimate /\ AllInRange /\ outdoorTemp >= temp) =>
         humidOn' = (IF humid <= W(config.lowHumid) THEN FALSE
                     ELSE IF humid >= W(config.highHumid) THEN TRUE
                     ELSE humidOn)]_vars

\* the low rule has won at humid = lowHumid = highHumid
C5_Witness ==
    /\ Evaluated
    /\ AllInRange
    /\ outdoorTemp >= temp
    /\ config.lowHumid = config.highHumid
    /\ humid = W(config.lowHumid)
    /\ ~humidOn

(***************************************************************************)
(* Properties of the input machine and the main loop.                      *)
(***************************************************************************)
\* a step of the program (time stands still during it)
ProgramStep == uptime' = uptime

\* a step in which processKeys is called: loopIdle and loopSetup at "loop",
\* the four processIU calls of processSensors
KeyPoll == ProgramStep /\ pc \in {"loop", "iu1", "iu2", "iu3", "iu4"}

\* C6: Debounce idempotence.  A processKeys call whose decoded key equals
\* the remembered key changes no threshold, no remembered key or time, and
\* leaves the mode alone unless it is the idle-timeout: a non-idle mode, more
\* than KEY_TIMEOUT ms after the last key transition, becoming idle.
C6_DebounceIdempotent ==
    [][(KeyPoll /\ held') =>
         /\ config' = config
         /\ lastKey' = lastKey
         /\ lastTime' = lastTime
         /\ \/ mode' = mode
            \/ (mode # idle /\ mode' = idle /\ sinceEdge > KEY_TIMEOUT)]_vars

\* Up is being held in SetLowTemp, some time after the edge that edited
C6_Witness ==
    /\ held
    /\ lastKey = up
    /\ mode = setLowTemp
    /\ sinceEdge > 0
    /\ config.lowTemp = 5

\* C7: Mode cycle.  The Select edges that follow one another from Idle with
\* no idle-timeout in between reach SetLowTemp, SetHighTemp, SetLowHumid,
\* SetHighHumid and Idle in that order; writeConfig is not called before the
\* fifth edge and exactly once on it.
CycleModes == <<setLowTemp, setHighTemp, setLowHumid, setHighHumid, idle>>

C7_ModeCycle ==
    /\ Len(selTrail) <= 5
    /\ selTrail = SubSeq(CycleModes, 1, Len(selTrail))
    /\ selTrail # <<>> => mode = selTrail[Len(selTrail)]
    /\ trailWrites = IF Len(selTrail) = 5 THEN 1 ELSE 0

\* five Select edges have been consumed in a row
C7_Witness == Len(selTrail) = 5 /\ mode = idle

\* C8: Idle-timeout.  In SetLowTemp, a processKeys call that finds the key
\* unchanged more than KEY_TIMEOUT ms after the last key transition makes
\* the mode Idle and calls writeConfig once; once the mode is Idle the
\* following calls with the key unchanged call it no more.
C8_IdleTimeout ==
    [][/\ (KeyPoll /\ held' /\ mode = setLowTemp /\ sinceEdge > KEY_TIMEOUT)
            => (mode' = idle /\ wrote' = 1)
       /\ (KeyPoll /\ held' /\ mode = idle) => wrote' = 0]_vars

\* C9: Persistence on exit.  A step of the program calls writeConfig, once,
\* exactly when it takes the mode from a non-idle value to Idle.
C9_PersistOnExit ==
    [][ProgramStep =>
         /\ wrote' \in {0, 1}
         /\ (wrote' = 1) <=> (mode # idle /\ mode' = idle)]_vars

\* the idle-timeout has just saved the thresholds
C9_Witness == wrote = 1 /\ mode = idle /\ held

\* C10 as stated: at no step taken with Mode # Idle is a reading sampled or
\* an actuator decision changed.
C10_FrozenWhileNotIdle ==
    [][mode # idle => UNCHANGED <<temp, humid, outdoorTemp, tempOn,
                                  humidOn>>]_vars

\* C10 amended: an iteration of the main loop that starts with Mode # Idle
\* is a loopSetup iteration; it samples no reading, runs neither
\* processClimate nor processRelays and leaves the decisions and the relay
\* outputs as they were.
C10_FrozenInSetupIterations ==
    [][(mode # idle /\ pc = "loop") =>
         /\ UNCHANGED <<climateVars, relayVars, lastReadTime>>
         /\ pc' = "loop"]_vars

\* a threshold has been edited while the heater stays on
C10_Witness ==
    /\ mode = setLowTemp
    /\ pc = "loop"
    /\ edits = 1
    /\ tempOn
    /\ relayTemp = LOW

\* a processKeys call that consumed a key transition to k
Edge(k) == KeyPoll /\ ~held' /\ lastKey' = k

\* the threshold each edit mode edits, and by how much
ModeField == (setLowTemp :> "lowTemp") @@ (setHighTemp :> "highTemp") @@
             (setLowHumid :> "lowHumid") @@ (setHighHumid :> "highHumid")
ModeStep  == (setLowTemp :> 1) @@ (setHighTemp :> 1) @@
             (setLowHumid :> 5) @@ (setHighHumid :> 5)

\* C11: Edit semantics.  Every key transition to Up consumed by processKeys
\* while Mode # Idle adds the step of the active mode's threshold (1 for the
\* temperatures, 5 for the humidities) to that threshold modulo 256, every
\* such transition to Down subtracts it modulo 256; none is dropped.
C11_EditSemantics ==
    [][/\ (Edge(up) /\ mode # idle) =>
             config' = [config EXCEPT
                          ![ModeField[mode]] = (@ + ModeStep[mode]) % 256]
       /\ (Edge(down) /\ mode # idle) =>
             config' = [config EXCEPT
                          ![ModeField[mode]] = (@ - ModeStep[mode]) % 256]]_vars

\* the mode that follows m in the cycle Idle, SetLowTemp, SetHighTemp,
\* SetLowHumid, SetHighHumid, Idle
CycleSucc(m) ==
    CASE m = idle         -> setLowTemp
      [] m = setLowTemp   -> setHighTemp
      [] m = setHighTemp  -> setLowHumid
      [] m = setLowHumid  -> setHighHumid
      [] m = setHighHumid -> idle

\* C12: Mode changes only through the input machine.  Over any step the mode
\* is unchanged, or a key transition to Select moved it to its successor in
\* the cycle, or an idle-timeout (a poll with the key unchanged, more than
\* KEY_TIMEOUT ms after the last transition) moved it from a non-idle value
\* to Idle.
C12_ModeChanges ==
    [][\/ mode' = mode
       \/ Edge(select) /\ mode' = CycleSucc(mode)
       \/ /\ KeyPoll /\ held' /\ sinceEdge > KEY_TIMEOUT
          /\ mode # idle /\ mode' = idle]_vars

\* the idle-timeout has taken the mode back to Idle while Select, which had
\* advanced it, was still the remembered key
C12_Witness ==
    /\ mode = idle
    /\ wrote = 1
    /\ held
    /\ lastKey = select
    /\ sinceEdge > KEY_TIMEOUT
    /\ pc = "loop"

\* a processKeys call made with Mode # Idle more than KEY_TIMEOUT ms after
\* the last recorded key transition
LatePoll == KeyPoll /\ mode # idle /\ sinceEdge > KEY_TIMEOUT

C14_RolloverSafeTimeout ==
    [][(LatePoll /\ held') => mode' = idle]_vars

(***************************************************************************)
(* Properties of the sampling period (checked under SpecSampling, where    *)
(* the counter has not wrapped: millis() is the uptime).                   *)
(***************************************************************************)
\* ms since the last sample was started, 0 standing for boot
SinceSample == uptime.ms - lastReadTime

\* processSensors is called / starts the three-reading sequence
SensorsCall == ProgramStep /\ pc = "sensors"
Samples == pc' = "iu1" /\ lastReadTime' = uptime.ms

\* C15 as stated: an idle-loop iteration performs the sensor sequence if and
\* only if at least SENSORS_READ_PERIOD ms have elapsed since the last
\* sample (since boot for the first).
C15_SamplesAtPeriod ==
    [][SensorsCall => (Samples <=> SinceSample >= 5000)]_vars

\* C15 amended: it performs the sequence if and only if more than
\* SENSORS_READ_PERIOD ms have elapsed; at exactly 5000 ms it does not.
C15_SamplesAfterPeriod ==
    [][SensorsCall =>
         /\ Samples <=> SinceSample > 5000
         /\ ~Samples => (pc' = "climate" /\ lastReadTime' = lastReadTime)]_vars

\* processSensors has run exactly 5000 ms after boot and not sampled.  (A
\* key transition was read at 5000 ms; with no sample ever started it was
\* read by loopIdle, and processSensors has run since.)
C15_Witness ==
    /\ pc = "climate"
    /\ uptime.ms = 5000
    /\ lastReadTime = 0
    /\ lastTime = 5000
    /\ temp = W(0)

\* C17: Config frame.  A threshold changes only in a processKeys call that
\* consumes a key transition to Up or Down while the mode is that
\* threshold's own edit mode, and the other three thresholds are unchanged
\* by that step; no step taken in Idle, no other transition, no timeout and
\* no sensor, climate or relay step changes a threshold.
C17_ConfigFrame ==
    [][config' # config =>
         /\ Edge(up) \/ Edge(down)
         /\ mode # idle
         /\ mode' = mode
         /\ \A f \in DOMAIN config :
               f # ModeField[mode] => config'[f] = config[f]]_vars

\* Up in SetHighHumid has moved highHumid by 5 and nothing else
C17_Witness ==
    /\ mode = setHighHumid
    /\ lastKey = up
    /\ ~held
    /\ config = [lowTemp |-> 4, highTemp |-> 6, lowHumid |-> 60,
                 highHumid |-> 75]

(***************************************************************************)
(* Properties at the boundaries of main-loop iterations.                   *)
(***************************************************************************)
\* loop() is about to be called
Boundary == pc = "loop"

\* the relays are active low: a relay is energized when its pin is LOW
HeaterEnergized == relayTemp = LOW
FanEnergized    == relayHumid = LOW

\* C16: Actuator outputs track the decision.  At every main-loop iteration
\* boundary, in Idle and in every edit mode and right after setup, the heater
\* relay is energized iff tempOn and the fan relay is energized iff humidOn.
C16_RelaysTrackDecision ==
    Boundary => /\ HeaterEnergized <=> tempOn
                /\ FanEnergized <=> humidOn

\* in an edit mode the fan relay is energized and the heater relay is not
C16_Witness ==
    /\ Boundary
    /\ mode = setHighHumid
    /\ humidOn /\ FanEnergized
    /\ ~tempOn /\ ~HeaterEnergized

\* C18 as stated: processKeys is called exactly once in every main-loop
\* iteration, so that Mode advances by at most one step in an iteration.
\* (An iteration that is under way, pc # "loop", is a loopIdle iteration and
\* began in Idle: one step from Idle is SetLowTemp.)
C18_OnePollPerIteration ==
    /\ polls <= 1
    /\ ~Boundary => mode \in {idle, setLowTemp}

\* C18 amended: every iteration begins with a processKeys call.  That call
\* is the only one of a loopSetup iteration and of a loopIdle iteration in
\* which processSensors does not sample; a loopIdle iteration that samples
\* makes four more, one after each step of the sensor sequence, five in
\* all.  Within one iteration Mode advances by at most three steps.
C18_PollsPerIteration ==
    [][ProgramStep =>
         /\ Boundary => polls' = 1
         /\ (Boundary /\ mode # idle) => pc' = "loop"
         /\ pc = "sensors" =>
              /\ polls' = 1
              /\ pc' = IF lastReadTime' # lastReadTime THEN "iu1"
                       ELSE "climate"
         /\ pc \in {"iu1", "iu2", "iu3", "iu4"} => polls' = polls + 1
         /\ (pc = "iu4" /\ pc' = "climate") => polls' = 5
         /\ pc \in {"climate", "relays"} => polls' = polls /\ polls \in {1, 5}
         /\ ~Boundary' => mode' # setHighHumid]_vars

\* a sampling iteration has ended after five calls that took the mode from
\* Idle to SetLowHumid
C18_Witness ==
    /\ Boundary
    /\ polls = 5
    /\ mode = setLowHumid
    /\ selTrail = <<setLowTemp, setHighTemp, setLowHumid>>
    /\ lastTime = lastReadTime

\* C19: System-level fail-safe.  At every main-loop iteration boundary, if a
\* stored reading is outside its valid range then tempOn and humidOn are both
\* false; from power-up (readings zero, humidity 0 out of range) both stay
\* false until a sensor sequence has stored three valid readings and
\* processClimate has evaluated them.
C19_FailSafe ==
    Boundary =>
        /\ ~AllInRange => (~tempOn /\ ~humidOn)
        /\ lastReadTime = 0 => (~tempOn /\ ~humidOn)

\* after a sample in which the outdoor probe failed the heater is off at a
\* temperature below lowTemp
C19_Witness ==
    /\ Boundary
    /\ lastReadTime > 0
    /\ outdoorTemp = W(-127)
    /\ TempInRange(temp) /\ HumidInRange(humid)
    /\ temp < W(config.lowTemp)
    /\ ~tempOn /\ ~humidOn
    /\ ~HeaterEnergized /\ ~FanEnergized

(***************************************************************************)
(* Properties of threshold editing (checked under SpecEdit).               *)
(***************************************************************************)
\* a loopSetup call consumes a transition to key k
EditEdge(k) == Boundary /\ mode # idle /\ Edge(k)

\* the last edit, made in the present mode, was made on a transition to k
Follows(k) == lastEdit.key = k

\* C20: Edit round-trip under byte wraparound.  In every edit mode and for
\* every value 0..255 of its threshold, an Up edge followed by a Down edge,
\* or a Down edge followed by an Up edge, leaves the thresholds as they were
\* before the two; every threshold stays in 0..255; 0 minus the step 1 is
\* 255 and 255 plus the step 5 is 4.
C20_EditRoundTrip ==
    [][/\ \A f \in DOMAIN config : config'[f] \in 0 .. 255
       /\ (EditEdge(down) /\ Follows(up)) => config' = lastEdit.was
       /\ (EditEdge(up) /\ Follows(down)) => config' = lastEdit.was
       /\ (EditEdge(down) /\ mode = setLowTemp /\ config.lowTemp = 0)
             => config'.lowTemp = 255
       /\ (EditEdge(up) /\ mode = setLowHumid /\ config.lowHumid = 255)
             => config'.lowHumid = 4]_vars

\* lowHumid has gone from 255 up to 4 and down to 255 again
C20_Witness ==
    /\ mode = setLowHumid
    /\ lastKey = down
    /\ ~held
    /\ lastEdit.key = down
    /\ lastEdit.was.lowHumid = 4
    /\ config.lowHumid = 255
    /\ edits = MaxEdits

====
